---- MODULE Spec2Model ----
(***************************************************************************)
(* The job worker's execution and streaming engine: the JobManager         *)
(* registry, the Job lifecycle (start, monitorCommand, stop), the Cgroup   *)
(* of a job, and the inotify LogWatcher with its watch objects, their      *)
(* reader goroutines and the consumers of their output channels.           *)
(*                                                                         *)
(* A run-time panic of any goroutine (a send on a closed channel, a call   *)
(* of a nil func, a nil *os.File) ends the server process: it is recorded  *)
(* in `panicked` and no step of the program follows it.                    *)
(***************************************************************************)
EXTENDS Integers, Sequences, FiniteSets, TLC

\* ------------------------------------------------------------------ bounds
\* Job ids the uuid generator can draw.
NumJobs == 2
\* Watch objects created over a run (calls of AddWatch that succeed).
MaxWatch == 3
\* Watch objects created while a job runs, in WatchSpec.
MaxLive == 2
\* Bytes the child of a job writes to its log file.
MaxBytes == 2
\* Bytes the child writes in JobSpec, where no subscriber reads them.
JobBytes == 1
\* Bytes the child writes in SoloSpec, to its single subscriber.
SoloBytes == 3
\* Calls made on a Cgroup used directly, in CgroupSpec.
MaxCalls == 3
\* Calls of start made on a job used directly, in UnitSpec.
MaxStarts == 3
\* Capacity of a watch object's event channel (1 << 10 in the source).
eventChannelSize == 1
\* Capacity of a watch object's output channel (1 << 10 in the source).
outputChannelSize == 1
\* Size of the reader's buffer in bytes (4 << 10 in the source).
readBufferSize == 1

JobIds == 1..NumJobs
WatchIds == 1..MaxWatch
\* Watch descriptors: every AddWatch may get a fresh one.
Wds == 1..MaxWatch

\* ------------------------------------------------------------------ types
JobInit == "Init"
JobScheduled == "Scheduled"
JobFailedToStart == "FailedToStart"
JobRunning == "Running"
JobStopped == "Stopped"

JobStatus == {JobInit, JobScheduled, JobFailedToStart, JobRunning, JobStopped}

IN_OPEN == "IN_OPEN"
IN_MODIFY == "IN_MODIFY"
IN_CLOSE_WRITE == "IN_CLOSE_WRITE"
IN_IGNORED == "IN_IGNORED"

\* Exit codes a child reports when it ends by itself.
ExitCodes == {0, 1}

VARIABLES
    jobDB,        \* JobManager.jobDB: the ids stored
    status,       \* JobInfo.status
    pid,          \* JobInfo.pid
    exitCode,     \* JobInfo.exitCode
    logFile,      \* Job.logFile: "nil", "open" or "closed"
    cancelFunc,   \* Job.cancelFunc: "nil" or "set"
    ctxDone,      \* the child context of the job has been cancelled
    cgroup,       \* Job.cgroup: the Cgroup, its directory and its files
    pc,           \* position of the goroutine running StartJob/start
    mon,          \* position of the monitorCommand goroutine
    stopPc,       \* position inside Job.stop
    stopArgs,     \* <<oldStatus, status>> of the running Job.stop
    child,        \* the child process: "none", "alive", "exited"
    childCode,    \* exit code reported by the OS for the child
    fileLen,      \* length of the log file; its bytes are 1..fileLen
    lastOp,       \* the last call of the JobManager API that returned
    panicked      \* "none", or the run-time panic that ended the process

jobVars == <<jobDB, status, pid, exitCode, logFile, cancelFunc, ctxDone, cgroup,
             pc, mon, stopPc, stopArgs, child, childCode, fileLen>>

VARIABLES
    inotifyQ,     \* events queued in the inotify descriptor: <<wd, mask>>
    kwatch,       \* kernel side: the watch descriptor of each log file, 0 if none
    nextWd,       \* next watch descriptor the kernel hands out
    watchObjMap,  \* LogWatcher.watchObjMap: wd -> list of watch objects
    nWatch,       \* watch objects created so far
    wo,           \* the watch objects
    rmCalls       \* inotify_rm_watch calls made, per watch descriptor

watchVars == <<inotifyQ, kwatch, nextWd, watchObjMap, nWatch, wo, rmCalls>>

VARIABLES
    jobClientMap, \* authHandler.jobClientMap: job id -> owner, "none" if not stored
    starter,      \* the owner held by the server's StartJob call in flight for a job
    lastReq,      \* the last request the gRPC server answered
    testCgroup,   \* a Cgroup used directly, as TestCgroups does
    testLog       \* the calls made on testCgroup and what each returned

sideVars == <<jobClientMap, starter, lastReq, testCgroup, testLog>>

VARIABLES
    startCalls,   \* calls of start made directly on a job: [pending, won, lost]
    stopErr       \* what the last call of Job.stop that returned has returned

callVars == <<startCalls, stopErr>>

vars == <<jobVars, lastOp, panicked, watchVars, sideVars, callVars>>

Alive == panicked = "none"

\* ------------------------------------------------------------------ inotify
\* The kernel queues an event for a file only while the file has a watch, and
\* merges an event identical to the newest one still queued (inotify(7)).
Emit(f, mask) ==
    IF kwatch[f] = 0
    THEN inotifyQ
    ELSE LET e == <<kwatch[f], mask>>
         IN IF Len(inotifyQ) > 0 /\ inotifyQ[Len(inotifyQ)] = e
            THEN inotifyQ
            ELSE Append(inotifyQ, e)

\* ------------------------------------------------------------------ cgroup
cpuMaxMicroSec == 1000000

jobWorkerCPUMaxQuotaMicroSec == 500000
jobWorkerMemMaxBytes == 500000
jobWorkerIoMaxBps == 500000

\* The limits initCgroup passes to Create.
JobLimits ==
    [cpu |-> jobWorkerCPUMaxQuotaMicroSec, mem |-> jobWorkerMemMaxBytes,
     io |-> jobWorkerIoMaxBps]

\* Major numbers the device backing the root mount may have.
Majors == {8, 259}

\* The device that backs the root mount of the machine the server runs on.
RootMajor == 259

\* Create, by the step that fails, "ok" when none does.
CreateOutcomes == {"ok", "subtree_control", "mkdir", "open", "cpu.max", "io.max", "memory.max"}

\* A file of the cgroup that Create has not written.
NoFile == ""

\* fd: "unset" (-1), "open", "finalized" (closed by the finalizer of the
\* os.File that Create dropped) or "closed" (closed by Delete); in the last two
\* cases the field still holds the number. dir: the directory root/name
\* exists. subtree: root/cgroup.subtree_control as Create wrote it.
NewCgroup ==
    [present |-> TRUE, fd |-> "unset", dir |-> FALSE, subtree |-> NoFile,
     cpuMax |-> NoFile, memMax |-> NoFile, ioMax |-> NoFile]

NoCgroup == [NewCgroup EXCEPT !.present = FALSE]

\* setLimits runs the step named r (and so can fail there) only for a limit
\* greater than zero.
StepRuns(limits, r) ==
    CASE r = "cpu.max" -> limits.cpu > 0
      [] r = "io.max" -> limits.io > 0
      [] r = "memory.max" -> limits.mem > 0
      [] OTHER -> TRUE

setCPULimit(c, limit) ==
    [c EXCEPT !.cpuMax = ToString(limit) \o " " \o ToString(cpuMaxMicroSec)]

setDiskIOLimit(c, limit, major) ==
    [c EXCEPT !.ioMax = ToString(major) \o ":0 rbps=" \o ToString(limit)
                           \o " wbps=" \o ToString(limit)]

setMemoryLimit(c, limit) == [c EXCEPT !.memMax = ToString(limit)]

\* Mutant of setLimits: a limit is written unless it is negative.
setLimits_AlsoZero(c, limits, major, r) ==
    LET c1 == IF limits.cpu >= 0 /\ r # "cpu.max" THEN setCPULimit(c, limits.cpu) ELSE c
        c2 == IF limits.io >= 0 /\ r # "io.max"
              THEN setDiskIOLimit(c1, limits.io, major) ELSE c1
        c3 == IF limits.mem >= 0 /\ r # "memory.max"
              THEN setMemoryLimit(c2, limits.mem) ELSE c2
    IN IF r = "cpu.max" THEN c
       ELSE IF r = "io.max" THEN c1
       ELSE IF r = "memory.max" THEN c2
       ELSE c3

\* Cgroup.setLimits when the step r fails: cpu, then io, then memory.
setLimits(c, limits, major, r) ==
    LET c1 == IF limits.cpu > 0 /\ r # "cpu.max" THEN setCPULimit(c, limits.cpu) ELSE c
        c2 == IF limits.io > 0 /\ r # "io.max"
              THEN setDiskIOLimit(c1, limits.io, major) ELSE c1
        c3 == IF limits.mem > 0 /\ r # "memory.max"
              THEN setMemoryLimit(c2, limits.mem) ELSE c2
    IN IF r = "cpu.max" THEN c
       ELSE IF r = "io.max" THEN c1
       ELSE IF r = "memory.max" THEN c2
       ELSE c3

\* Cgroup.Create when the step r fails ("ok": none): the controllers are
\* written, the directory made if missing, the descriptor opened and kept as a
\* number, the limits set.
CgroupCreate(c, limits, major, r) ==
    LET c1 == [c EXCEPT !.subtree = "+cpu +memory +io"]
        c2 == [c1 EXCEPT !.dir = TRUE]
        c3 == [c2 EXCEPT !.fd = "open"]
    IN IF r = "subtree_control" THEN c
       ELSE IF r = "mkdir" THEN c1
       ELSE IF r = "open" THEN c2
       ELSE setLimits(c3, limits, major, r)

\* os.RemoveAll(c.path): the directory and the files in it are gone.
RemoveAll(c) ==
    [c EXCEPT !.dir = FALSE, !.cpuMax = NoFile, !.memMax = NoFile, !.ioMax = NoFile]

\* Mutant of CgroupDelete: the directory is removed first, the descriptor
\* closed afterwards.
CgroupDelete_RemoveFirst(c, reused) ==
    IF c.fd = "unset"
    THEN [mid |-> RemoveAll(c), c |-> RemoveAll(c), err |-> FALSE]
    ELSE IF c.fd = "open" \/ reused
    THEN [mid |-> RemoveAll(c), c |-> RemoveAll([c EXCEPT !.fd = "closed"]), err |-> FALSE]
    ELSE [mid |-> RemoveAll(c), c |-> RemoveAll(c), err |-> TRUE]

\* Cgroup.Delete: [mid |-> the cgroup between the close of the descriptor and
\* the removal of the directory, c |-> the cgroup afterwards, err |-> an error
\* is returned]. unix.Close(c.fd) is called whenever the field holds a number.
\* On a number that is closed already it fails and Delete returns before
\* RemoveAll, unless the process has opened another file under that number
\* meanwhile (reused): then that file is closed instead.
CgroupDelete(c, reused) ==
    IF c.fd = "unset"
    THEN [mid |-> c, c |-> RemoveAll(c), err |-> FALSE]
    ELSE IF c.fd = "open" \/ reused
    THEN [mid |-> [c EXCEPT !.fd = "closed"],
          c |-> RemoveAll([c EXCEPT !.fd = "closed"]), err |-> FALSE]
    ELSE [mid |-> c, c |-> c, err |-> TRUE]

\* The runtime finalizer of the *os.File that Create opened and dropped after
\* file.Fd(): the garbage collector may run it at any moment, and it closes
\* the descriptor.
Finalized(c) == [c EXCEPT !.fd = "finalized"]

\* ------------------------------------------------------------------ JobManager.StartJob
\* Mutant of StartJob: the job is stored with Store, whatever the map holds,
\* and started.
StartJob_Store(id, useCgroup, err) ==
    /\ Alive
    /\ \/ id \in jobDB
       \/ id = Cardinality(jobDB) + 1
    /\ err = "none"
    /\ jobDB' = jobDB \cup {id}
    /\ cgroup' = [cgroup EXCEPT ![id] = IF useCgroup THEN NewCgroup ELSE NoCgroup]
    /\ pc' = [pc EXCEPT ![id] = "cas"]
    /\ UNCHANGED <<status, pid, exitCode, logFile, cancelFunc, ctxDone, mon,
                   stopPc, stopArgs, child, childCode, fileLen,
                   panicked, watchVars>>

\* uuid.NewString() draws the id; LoadOrStore rejects one already stored.
\* With err = "none" the job is stored and the caller goes on to start, whose
\* outcome is the final pc of the job: "done" (the info view is returned),
\* "failed" or "invalid" (an error is returned).
StartJob(id, useCgroup, err) ==
    /\ Alive
    /\ \/ id \in jobDB
       \/ id = Cardinality(jobDB) + 1
    /\ IF id \in jobDB
       THEN /\ err = "AlreadyExists"
            /\ UNCHANGED <<jobVars, panicked, watchVars>>
       ELSE /\ err = "none"
            /\ jobDB' = jobDB \cup {id}
            /\ cgroup' = [cgroup EXCEPT ![id] = IF useCgroup THEN NewCgroup ELSE NoCgroup]
            /\ pc' = [pc EXCEPT ![id] = "cas"]
            /\ UNCHANGED <<status, pid, exitCode, logFile, cancelFunc, ctxDone, mon,
                           stopPc, stopArgs, child, childCode, fileLen,
                           panicked, watchVars>>

\* Mutant of CallStop: the caller passes the job's first status as the one
\* expected, so the compare-and-swap of stop fails.
CallStop_StaleOld(j, old, new) ==
    /\ stopPc' = [stopPc EXCEPT ![j] = "cas"]
    /\ stopArgs' = [stopArgs EXCEPT ![j] = <<JobInit, new>>]

\* A call of Job.stop(old, new) by the goroutine that is at this point.
CallStop(j, old, new) ==
    /\ stopPc' = [stopPc EXCEPT ![j] = "cas"]
    /\ stopArgs' = [stopArgs EXCEPT ![j] = <<old, new>>]

\* start, line 113: the compare-and-swap Init -> Scheduled.
StartCAS(j) ==
    /\ Alive
    /\ pc[j] = "cas"
    /\ IF status[j] = JobInit
       THEN /\ status' = [status EXCEPT ![j] = JobScheduled]
            /\ pc' = [pc EXCEPT ![j] = "initCgroup"]
       ELSE /\ pc' = [pc EXCEPT ![j] = "invalid"]
            /\ UNCHANGED status
    /\ UNCHANGED <<jobDB, pid, exitCode, logFile, cancelFunc, ctxDone, cgroup, mon,
                   stopPc, stopArgs, child, childCode, fileLen, lastOp, sideVars, callVars, panicked,
                   watchVars>>

\* start, lines 117-120, and initCgroup.
InitCgroup(j) ==
    /\ Alive
    /\ pc[j] = "initCgroup"
    /\ IF ~cgroup[j].present
       THEN /\ pc' = [pc EXCEPT ![j] = "openLogFile"]
            /\ UNCHANGED <<cgroup, stopPc, stopArgs>>
       ELSE \E r \in CreateOutcomes :
            /\ StepRuns(JobLimits, r)
            /\ cgroup' = [cgroup EXCEPT ![j] = CgroupCreate(@, JobLimits, RootMajor, r)]
            /\ IF r = "ok"
               THEN /\ pc' = [pc EXCEPT ![j] = "openLogFile"]
                    /\ UNCHANGED <<stopPc, stopArgs>>
               ELSE /\ pc' = [pc EXCEPT ![j] = "in_stop"]
                    /\ CallStop(j, JobScheduled, JobFailedToStart)
    /\ UNCHANGED <<jobDB, status, pid, exitCode, logFile, cancelFunc, ctxDone, mon,
                   child, childCode, fileLen, lastOp, sideVars, callVars, panicked, watchVars>>

\* start, lines 123-126, and openLogFile: os.Create succeeds or fails.
OpenLogFile(j) ==
    /\ Alive
    /\ pc[j] = "openLogFile"
    /\ \E ok \in BOOLEAN :
       IF ok
       THEN /\ logFile' = [logFile EXCEPT ![j] = "open"]
            /\ fileLen' = [fileLen EXCEPT ![j] = 0]
            /\ pc' = [pc EXCEPT ![j] = "spawn"]
            /\ UNCHANGED <<stopPc, stopArgs>>
       ELSE /\ pc' = [pc EXCEPT ![j] = "in_stop"]
            /\ CallStop(j, JobScheduled, JobFailedToStart)
            /\ UNCHANGED <<logFile, fileLen>>
    /\ UNCHANGED <<jobDB, status, pid, exitCode, cancelFunc, ctxDone, cgroup, mon,
                   child, childCode, lastOp, sideVars, callVars, panicked, watchVars>>

\* start, lines 133-159: the cancel func is stored, then cmd.Start succeeds
\* (the child runs) or fails (an invalid command, or a cgroup descriptor that
\* is no longer open).
Spawn(j) ==
    /\ Alive
    /\ pc[j] = "spawn"
    /\ cancelFunc' = [cancelFunc EXCEPT ![j] = "set"]
    /\ \E ok \in IF cgroup[j].present /\ cgroup[j].fd # "open" THEN {FALSE} ELSE BOOLEAN :
       IF ok
       THEN /\ child' = [child EXCEPT ![j] = "alive"]
            /\ pc' = [pc EXCEPT ![j] = "storePid"]
            /\ UNCHANGED <<stopPc, stopArgs>>
       ELSE /\ pc' = [pc EXCEPT ![j] = "in_stop"]
            /\ CallStop(j, JobScheduled, JobFailedToStart)
            /\ UNCHANGED child
    /\ UNCHANGED <<jobDB, status, pid, exitCode, logFile, ctxDone, cgroup, mon,
                   childCode, fileLen, lastOp, sideVars, callVars, panicked, watchVars>>

\* The pid the OS gave the child: positive.
ChildPid(j) == j

\* Mutant of StorePid: the pid is not stored before the status.
StorePid_Skipped(j) ==
    /\ Alive
    /\ pc[j] = "storePid"
    /\ pc' = [pc EXCEPT ![j] = "storeStatus"]
    /\ UNCHANGED <<jobDB, status, pid, exitCode, logFile, cancelFunc, ctxDone, cgroup, mon,
                   stopPc, stopArgs, child, childCode, fileLen, lastOp, sideVars, callVars, panicked,
                   watchVars>>

\* start, line 162.
StorePid(j) ==
    /\ Alive
    /\ pc[j] = "storePid"
    /\ pid' = [pid EXCEPT ![j] = ChildPid(j)]
    /\ pc' = [pc EXCEPT ![j] = "storeStatus"]
    /\ UNCHANGED <<jobDB, status, exitCode, logFile, cancelFunc, ctxDone, cgroup, mon,
                   stopPc, stopArgs, child, childCode, fileLen, lastOp, sideVars, callVars, panicked,
                   watchVars>>

\* start, lines 163-168: the status is stored, the monitor launched, and
\* StartJob returns the info view.
StoreRunning(j) ==
    /\ Alive
    /\ pc[j] = "storeStatus"
    /\ status' = [status EXCEPT ![j] = JobRunning]
    /\ mon' = [mon EXCEPT ![j] = "wait"]
    /\ pc' = [pc EXCEPT ![j] = "done"]
    /\ UNCHANGED <<jobDB, pid, exitCode, logFile, cancelFunc, ctxDone, cgroup,
                   stopPc, stopArgs, child, childCode, fileLen, lastOp, sideVars, callVars, panicked,
                   watchVars>>

\* ------------------------------------------------------------------ Job.stop
\* Mutant of StopReturns: start does not return after a failed step and goes
\* on to store the pid and the status.
StopReturns_FallThrough(j) ==
    /\ stopPc' = [stopPc EXCEPT ![j] = "none"]
    /\ IF pc[j] = "in_stop"
       THEN /\ pc' = [pc EXCEPT ![j] = "storePid"]
            /\ UNCHANGED mon
       ELSE IF mon[j] = "in_stop"
       THEN /\ mon' = [mon EXCEPT ![j] = "done"]
            /\ UNCHANGED pc
       ELSE UNCHANGED <<pc, mon>>

\* Mutant of StopReturns: start does not return after the stop of a failed
\* step and goes on to run the command.
StopReturns_Resumes(j) ==
    /\ stopPc' = [stopPc EXCEPT ![j] = "none"]
    /\ IF pc[j] = "in_stop"
       THEN /\ pc' = [pc EXCEPT ![j] = "spawn"]
            /\ UNCHANGED mon
       ELSE IF mon[j] = "in_stop"
       THEN /\ mon' = [mon EXCEPT ![j] = "done"]
            /\ UNCHANGED pc
       ELSE UNCHANGED <<pc, mon>>

\* Job.stop returns to its caller: start returns the error to StartJob, which
\* returns it; monitorCommand logs and ends; a direct caller has the result.
StopReturns(j) ==
    /\ stopPc' = [stopPc EXCEPT ![j] = "none"]
    /\ IF pc[j] = "in_stop"
       THEN /\ pc' = [pc EXCEPT ![j] = "failed"]
            /\ UNCHANGED mon
       ELSE IF mon[j] = "in_stop"
       THEN /\ mon' = [mon EXCEPT ![j] = "done"]
            /\ UNCHANGED pc
       ELSE UNCHANGED <<pc, mon>>

\* What stop returns: nil, or the error of the step that failed.
Returned(j, e) == stopErr' = [stopErr EXCEPT ![j] = e]

\* Mutant of StopCAS: a failed compare-and-swap is not checked and stop goes
\* on to its cleanup.
StopCAS_Unchecked(j) ==
    /\ Alive
    /\ stopPc[j] = "cas"
    /\ status' = IF status[j] = stopArgs[j][1]
                 THEN [status EXCEPT ![j] = stopArgs[j][2]]
                 ELSE status
    /\ stopPc' = [stopPc EXCEPT ![j] = "close"]
    /\ UNCHANGED <<jobDB, pid, exitCode, logFile, cancelFunc, ctxDone, cgroup, pc, mon,
                   stopArgs, child, childCode, fileLen, lastOp, sideVars, callVars,
                   panicked, watchVars>>

\* Mutant of StopCAS: the log file is closed on the way, before the status is
\* swapped; the swap is left to a later step.
StopCAS_CloseFirst(j) ==
    /\ Alive
    /\ stopPc[j] = "cas"
    /\ IF status[j] = stopArgs[j][1]
       THEN /\ stopPc' = [stopPc EXCEPT ![j] = "close"]
            /\ logFile' = [logFile EXCEPT ![j] = IF @ = "open" THEN "closed" ELSE @]
            /\ inotifyQ' = IF logFile[j] = "open" THEN Emit(j, IN_CLOSE_WRITE) ELSE inotifyQ
            /\ UNCHANGED <<pc, mon, stopErr>>
       ELSE /\ StopReturns(j)
            /\ Returned(j, "cas")
            /\ UNCHANGED <<logFile, inotifyQ>>
    /\ UNCHANGED <<jobDB, status, pid, exitCode, cancelFunc, ctxDone, cgroup,
                   stopArgs, child, childCode, fileLen, lastOp, sideVars, startCalls,
                   panicked, kwatch, nextWd, watchObjMap, nWatch, wo, rmCalls>>

\* stop, lines 233-235: the compare-and-swap oldStatus -> status.
StopCAS(j) ==
    /\ Alive
    /\ stopPc[j] = "cas"
    /\ IF status[j] = stopArgs[j][1]
       THEN /\ status' = [status EXCEPT ![j] = stopArgs[j][2]]
            /\ stopPc' = [stopPc EXCEPT ![j] = "close"]
            /\ UNCHANGED <<pc, mon, stopErr>>
       ELSE /\ StopReturns(j)
            /\ Returned(j, "cas")
            /\ UNCHANGED status
    /\ UNCHANGED <<jobDB, pid, exitCode, logFile, cancelFunc, ctxDone, cgroup,
                   stopArgs, child, childCode, fileLen, lastOp, sideVars, startCalls,
                   panicked, watchVars>>

\* stop, lines 237-241: the log file, if there is one, is closed; when Close
\* returns an error stop returns it. Close of a file that is closed already
\* fails; the close of an open file releases the descriptor (the last one open
\* for writing: the child has ended or was never spawned) whether or not the
\* system call reports an error.
StopClose(j) ==
    /\ Alive
    /\ stopPc[j] = "close"
    /\ IF logFile[j] = "closed"
       THEN /\ StopReturns(j)
            /\ Returned(j, "close")
            /\ UNCHANGED <<logFile, inotifyQ>>
       ELSE IF logFile[j] = "nil"
       THEN /\ stopPc' = [stopPc EXCEPT ![j] = "delete"]
            /\ UNCHANGED <<logFile, inotifyQ, pc, mon, stopErr>>
       ELSE \E closeErr \in BOOLEAN :
            /\ logFile' = [logFile EXCEPT ![j] = "closed"]
            /\ inotifyQ' = Emit(j, IN_CLOSE_WRITE)
            /\ IF closeErr
               THEN /\ StopReturns(j)
                    /\ Returned(j, "close")
               ELSE /\ stopPc' = [stopPc EXCEPT ![j] = "delete"]
                    /\ UNCHANGED <<pc, mon, stopErr>>
    /\ UNCHANGED <<jobDB, status, pid, exitCode, cancelFunc, ctxDone, cgroup,
                   stopArgs, child, childCode, fileLen, lastOp, sideVars, startCalls,
                   panicked, kwatch, nextWd, watchObjMap, nWatch, wo, rmCalls>>

\* stop, lines 243-249: the cgroup is deleted and stop returns.
StopDelete(j) ==
    /\ Alive
    /\ stopPc[j] = "delete"
    /\ IF cgroup[j].present
       THEN \E reused \in BOOLEAN :
               /\ cgroup' = [cgroup EXCEPT ![j] = CgroupDelete(@, reused).c]
               /\ Returned(j, IF CgroupDelete(cgroup[j], reused).err THEN "delete" ELSE "nil")
       ELSE /\ UNCHANGED cgroup
            /\ Returned(j, "nil")
    /\ StopReturns(j)
    /\ UNCHANGED <<jobDB, status, pid, exitCode, logFile, cancelFunc, ctxDone,
                   stopArgs, child, childCode, fileLen, lastOp, sideVars, startCalls,
                   panicked, watchVars>>

\* The garbage collector finalizes the file behind a job's cgroup descriptor.
FinalizeCgroupFile(j) ==
    /\ Alive
    /\ cgroup[j].fd = "open"
    /\ cgroup' = [cgroup EXCEPT ![j] = Finalized(@)]
    /\ UNCHANGED <<jobDB, status, pid, exitCode, logFile, cancelFunc, ctxDone,
                   pc, mon, stopPc, stopArgs, child, childCode, fileLen, lastOp,
                   sideVars, callVars, panicked, watchVars>>

\* ------------------------------------------------------------------ the child
\* The child appends a byte to the log file it has as stdout and stderr.
ChildWrite(j) ==
    /\ Alive
    /\ child[j] = "alive"
    /\ fileLen' = [fileLen EXCEPT ![j] = @ + 1]
    /\ inotifyQ' = Emit(j, IN_MODIFY)
    /\ UNCHANGED <<jobDB, status, pid, exitCode, logFile, cancelFunc, ctxDone, cgroup,
                   pc, mon, stopPc, stopArgs, child, childCode, lastOp, sideVars, callVars, panicked,
                   kwatch, nextWd, watchObjMap, nWatch, wo, rmCalls>>

\* The child ends by itself with exit code c.
ChildExit(j, c) ==
    /\ Alive
    /\ child[j] = "alive"
    /\ child' = [child EXCEPT ![j] = "exited"]
    /\ childCode' = [childCode EXCEPT ![j] = c]
    /\ UNCHANGED <<jobDB, status, pid, exitCode, logFile, cancelFunc, ctxDone, cgroup,
                   pc, mon, stopPc, stopArgs, fileLen, lastOp, sideVars, callVars, panicked, watchVars>>

\* exec.CommandContext kills the child once its context is cancelled; the
\* exit code of a killed process is -1.
ChildKill(j) ==
    /\ Alive
    /\ child[j] = "alive"
    /\ ctxDone[j]
    /\ child' = [child EXCEPT ![j] = "exited"]
    /\ childCode' = [childCode EXCEPT ![j] = -1]
    /\ UNCHANGED <<jobDB, status, pid, exitCode, logFile, cancelFunc, ctxDone, cgroup,
                   pc, mon, stopPc, stopArgs, fileLen, lastOp, sideVars, callVars, panicked, watchVars>>

\* ------------------------------------------------------------------ Job.monitorCommand
\* Mutant of MonitorWait: stop is called without the exit code being stored.
MonitorWait_NoExitCode(j) ==
    /\ Alive
    /\ mon[j] = "wait"
    /\ child[j] = "exited"
    /\ mon' = [mon EXCEPT ![j] = "in_stop"]
    /\ CallStop(j, JobRunning, JobStopped)
    /\ UNCHANGED <<jobDB, status, pid, exitCode, logFile, cancelFunc, ctxDone, cgroup, pc,
                   child, childCode, fileLen, lastOp, sideVars, callVars, panicked,
                   watchVars>>

\* monitorCommand, lines 201-211: cmd.Wait returns, the exit code is stored,
\* stop(JobRunning, JobStopped) is called.
MonitorWait(j) ==
    /\ Alive
    /\ mon[j] = "wait"
    /\ child[j] = "exited"
    /\ exitCode' = [exitCode EXCEPT ![j] = childCode[j]]
    /\ mon' = [mon EXCEPT ![j] = "in_stop"]
    /\ CallStop(j, JobRunning, JobStopped)
    /\ UNCHANGED <<jobDB, status, pid, logFile, cancelFunc, ctxDone, cgroup, pc,
                   child, childCode, fileLen, lastOp, sideVars, callVars, panicked, watchVars>>

\* Job.isActive.
isActive(j) == status[j] \in {JobRunning, JobScheduled}

\* The ids a caller can pass: one it got from a StartJob that returned (the
\* error of a failed start names the id), or one that is not registered.
Callable(id) == id \notin jobDB \/ pc[id] \in {"done", "failed"}

\* ------------------------------------------------------------------ JobManager.StopJob
\* The job is looked up and its cancel func called; a nil func panics.
\* Mutant of StopJob: the result of the lookup is not checked.
StopJob_NoLookup(id, err) ==
    /\ Alive
    /\ Callable(id)
    /\ err = "none"
    /\ ctxDone' = [ctxDone EXCEPT ![id] = TRUE]
    /\ UNCHANGED <<jobDB, status, pid, exitCode, logFile, cancelFunc, cgroup,
                   pc, mon, stopPc, stopArgs, child, childCode, fileLen, panicked,
                   watchVars>>

\* Mutant of StopJob: the call itself records the exit code of a killed child.
StopJob_SetsExitCode(id, err) ==
    /\ Alive
    /\ Callable(id)
    /\ IF id \notin jobDB
       THEN /\ err = "NotFound"
            /\ UNCHANGED <<ctxDone, exitCode>>
       ELSE /\ err = "none"
            /\ ctxDone' = [ctxDone EXCEPT ![id] = TRUE]
            /\ exitCode' = [exitCode EXCEPT ![id] = -1]
    /\ UNCHANGED <<jobDB, status, pid, logFile, cancelFunc, cgroup,
                   pc, mon, stopPc, stopArgs, child, childCode, fileLen, panicked,
                   watchVars>>

\* err is what the call returns: "none" with the info view, "NotFound", or
\* "panic" when the call does not return.
StopJob(id, err) ==
    /\ Alive
    /\ Callable(id)
    /\ IF id \notin jobDB
       THEN /\ err = "NotFound"
            /\ UNCHANGED <<ctxDone, panicked>>
       ELSE IF cancelFunc[id] = "nil"
       THEN /\ err = "panic"
            /\ panicked' = "nil cancelFunc"
            /\ UNCHANGED ctxDone
       ELSE /\ err = "none"
            /\ ctxDone' = [ctxDone EXCEPT ![id] = TRUE]
            /\ UNCHANGED panicked
    /\ UNCHANGED <<jobDB, status, pid, exitCode, logFile, cancelFunc, cgroup,
                   pc, mon, stopPc, stopArgs, child, childCode, fileLen, watchVars>>

\* ------------------------------------------------------------------ JobManager.QueryJob
\* Mutant of QueryJob: only a job that is still active is found.
QueryJob_OnlyActive(id, err) ==
    /\ Alive
    /\ Callable(id)
    /\ err = IF id \in jobDB /\ isActive(id) THEN "none" ELSE "NotFound"
    /\ UNCHANGED <<jobVars, panicked, watchVars>>

\* The info view returned is the job's own JobInfo: its fields are read by
\* the caller from the job's atomics.
QueryJob(id, err) ==
    /\ Alive
    /\ Callable(id)
    /\ err = IF id \in jobDB THEN "none" ELSE "NotFound"
    /\ UNCHANGED <<jobVars, panicked, watchVars>>

\* ------------------------------------------------------------------ watch objects
NoWatch ==
    [file |-> 0, wd |-> 0, ev |-> <<>>, evClosed |-> FALSE, out |-> <<>>,
     outClosed |-> FALSE, rpc |-> "none", off |-> 0, once |-> FALSE,
     recv |-> <<>>, dropped |-> FALSE, born |-> JobInit]

\* newWatchObject: the object of a new subscription of file f under wd.
\* recv (what the consumer of the output channel has received), dropped (a
\* buffer was dropped on a full output channel) and born (the job's status when
\* the object was made) are history, not fields of the object.
newWatchObject(f, wd) ==
    [NoWatch EXCEPT !.file = f, !.wd = wd, !.rpc = "open", !.born = status[f]]

\* LogWatcher.AddWatch under the registry lock: inotify_add_watch returns the
\* descriptor the file already has, or a new one; the object is appended to
\* the list of that descriptor and its reader goroutine launched.
AddWatch(f) ==
    LET wd == IF kwatch[f] # 0 THEN kwatch[f] ELSE nextWd
        w == nWatch + 1
    IN /\ kwatch' = [kwatch EXCEPT ![f] = wd]
       /\ nextWd' = IF kwatch[f] # 0 THEN nextWd ELSE nextWd + 1
       /\ nWatch' = w
       /\ wo' = [wo EXCEPT ![w] = newWatchObject(f, wd)]
       /\ watchObjMap' = [watchObjMap EXCEPT ![wd] = Append(@, w)]

\* JobManager.StreamJob: the job is looked up and the name of its log file
\* (a nil *os.File panics) is handed to AddWatch.
StreamJob(id, err) ==
    /\ Alive
    /\ Callable(id)
    /\ IF id \notin jobDB
       THEN /\ err = "NotFound"
            /\ UNCHANGED <<panicked, watchVars>>
       ELSE IF logFile[id] = "nil"
       THEN /\ err = "panic"
            /\ panicked' = "nil logFile"
            /\ UNCHANGED watchVars
       ELSE /\ err = "none"
            /\ AddWatch(id)
            /\ UNCHANGED <<panicked, inotifyQ, rmCalls>>
    /\ UNCHANGED jobVars

\* startWatching, lines 57-61: the reader opens the log file.
ReaderOpen(w) ==
    /\ Alive
    /\ wo[w].rpc = "open"
    /\ inotifyQ' = Emit(wo[w].file, IN_OPEN)
    /\ wo' = [wo EXCEPT ![w].rpc = "wait"]
    /\ UNCHANGED <<jobVars, lastOp, sideVars, callVars, panicked, kwatch, nextWd, watchObjMap, nWatch,
                   rmCalls>>

\* startWatching, line 68: the next event is received, or the loop ends on
\* the closed and drained event channel.
ReaderRecv(w) ==
    /\ Alive
    /\ wo[w].rpc = "wait"
    /\ Len(wo[w].ev) > 0 \/ wo[w].evClosed
    /\ wo' = IF Len(wo[w].ev) > 0
             THEN [wo EXCEPT ![w].ev = Tail(@), ![w].rpc = "read"]
             ELSE [wo EXCEPT ![w].rpc = "exit"]
    /\ UNCHANGED <<jobVars, lastOp, sideVars, callVars, panicked, inotifyQ, kwatch, nextWd, watchObjMap,
                   nWatch, rmCalls>>

\* The bytes lo+1..hi of a log file.
Bytes(lo, hi) == [k \in 1..(hi - lo) |-> lo + k]

\* Mutant of ReaderRead: the read position is not kept between two Reads.
ReaderRead_NoAdvance(w) ==
    /\ Alive
    /\ wo[w].rpc = "read"
    /\ LET avail == fileLen[wo[w].file] - wo[w].off
           n == IF avail < readBufferSize THEN avail ELSE readBufferSize
           sendBuf == Bytes(wo[w].off, wo[w].off + n)
       IN IF n = 0
          THEN /\ wo' = [wo EXCEPT ![w].rpc = "check"]
               /\ UNCHANGED panicked
          ELSE IF wo[w].outClosed
          THEN /\ panicked' = "send on closed outChannel"
               /\ UNCHANGED wo
          ELSE /\ wo' = IF Len(wo[w].out) < outputChannelSize
                        THEN [wo EXCEPT ![w].out = Append(@, sendBuf)]
                        ELSE [wo EXCEPT ![w].dropped = TRUE]
               /\ UNCHANGED panicked
    /\ UNCHANGED <<jobVars, lastOp, sideVars, callVars, inotifyQ, kwatch, nextWd, watchObjMap, nWatch,
                   rmCalls>>

\* readToEOF, one turn of its loop: a Read of up to readBufferSize bytes; the
\* bytes read are sent without blocking; a Read of nothing is the end of file.
ReaderRead(w) ==
    /\ Alive
    /\ wo[w].rpc = "read"
    /\ LET avail == fileLen[wo[w].file] - wo[w].off
           n == IF avail < readBufferSize THEN avail ELSE readBufferSize
           sendBuf == Bytes(wo[w].off, wo[w].off + n)
       IN IF n = 0
          THEN /\ wo' = [wo EXCEPT ![w].rpc = "check"]
               /\ UNCHANGED panicked
          ELSE IF wo[w].outClosed
          THEN /\ panicked' = "send on closed outChannel"
               /\ wo' = [wo EXCEPT ![w].off = @ + n]
          ELSE /\ wo' = IF Len(wo[w].out) < outputChannelSize
                        THEN [wo EXCEPT ![w].off = @ + n, ![w].out = Append(@, sendBuf)]
                        ELSE [wo EXCEPT ![w].off = @ + n, ![w].dropped = TRUE]
               /\ UNCHANGED panicked
    /\ UNCHANGED <<jobVars, lastOp, sideVars, callVars, inotifyQ, kwatch, nextWd, watchObjMap, nWatch,
                   rmCalls>>

\* Mutant of ReaderCheck: the cleanup is not guarded by once.Do.
ReaderCheck_NoOnce(w) ==
    /\ Alive
    /\ wo[w].rpc = "check"
    /\ wo' = IF isActive(wo[w].file)
             THEN [wo EXCEPT ![w].rpc = "wait"]
             ELSE [wo EXCEPT ![w].rpc = "cleanup", ![w].once = TRUE]
    /\ UNCHANGED <<jobVars, lastOp, sideVars, callVars, panicked, inotifyQ, kwatch, nextWd,
                   watchObjMap, nWatch, rmCalls>>

\* Mutant of ReaderCheck: the cleanup runs after the first read to the end of
\* the file, whether the job is active or not.
ReaderCheck_IgnoresActive(w) ==
    /\ Alive
    /\ wo[w].rpc = "check"
    /\ wo' = IF wo[w].once
             THEN [wo EXCEPT ![w].rpc = "wait"]
             ELSE [wo EXCEPT ![w].rpc = "cleanup", ![w].once = TRUE]
    /\ UNCHANGED <<jobVars, lastOp, sideVars, callVars, panicked, inotifyQ, kwatch, nextWd,
                   watchObjMap, nWatch, rmCalls>>

\* startWatching, lines 72-76: isActive is evaluated after the read to the end
\* of file; once.Do lets the cleanup run a single time.
ReaderCheck(w) ==
    /\ Alive
    /\ wo[w].rpc = "check"
    /\ wo' = IF isActive(wo[w].file) \/ wo[w].once
             THEN [wo EXCEPT ![w].rpc = "wait"]
             ELSE [wo EXCEPT ![w].rpc = "cleanup", ![w].once = TRUE]
    /\ UNCHANGED <<jobVars, lastOp, sideVars, callVars, panicked, inotifyQ, kwatch, nextWd, watchObjMap,
                   nWatch, rmCalls>>

\* removeWatchObject, lines 133-139: the loop over the local slice
\* watchObjects[1..n] of the backing array arr, which the list stored in the map
\* shares; append(watchObjects[:i], watchObjects[i+1:]...) moves the elements
\* after i one place down inside that array.
RECURSIVE RemoveLoop(_, _, _, _)
RemoveLoop(arr, n, i, id) ==
    IF i > n
    THEN <<arr, n>>
    ELSE IF arr[i] = id
    THEN RemoveLoop([k \in 1..Len(arr) |-> IF k >= i /\ k < n THEN arr[k + 1] ELSE arr[k]],
                    n - 1, i, id)
    ELSE RemoveLoop(arr, n, i + 1, id)

\* LogWatcher.removeWatchObject under the registry lock, called by the reader
\* as its cleanup. The list in the map keeps its length: only the local slice
\* header shrinks.
removeWatchObject(w) ==
    LET wd == wo[w].wd
        f == wo[w].file
        r == RemoveLoop(watchObjMap[wd], Len(watchObjMap[wd]), 1, w)
    IN /\ watchObjMap' = [watchObjMap EXCEPT ![wd] = r[1]]
       /\ wo' = [wo EXCEPT ![w].outClosed = TRUE, ![w].evClosed = TRUE, ![w].rpc = "wait"]
       /\ IF r[2] = 0
          THEN /\ rmCalls' = [rmCalls EXCEPT ![wd] = @ + 1]
               /\ IF kwatch[f] = wd
                  THEN /\ kwatch' = [kwatch EXCEPT ![f] = 0]
                       /\ inotifyQ' = Append(inotifyQ, <<wd, IN_IGNORED>>)
                  ELSE UNCHANGED <<kwatch, inotifyQ>>
          ELSE UNCHANGED <<rmCalls, kwatch, inotifyQ>>

ReaderCleanup(w) ==
    /\ Alive
    /\ wo[w].rpc = "cleanup"
    /\ removeWatchObject(w)
    /\ UNCHANGED <<jobVars, lastOp, sideVars, callVars, panicked, nextWd, nWatch>>

\* processSingleEvent, lines 114-119: the mask is sent without blocking to
\* every object of the list, in order; a send on a closed channel panics.
RECURSIVE Deliver(_, _, _)
Deliver(objs, mask, W) ==
    IF objs = <<>>
    THEN [wo |-> W, panic |-> FALSE]
    ELSE LET o == Head(objs)
         IN IF W[o].evClosed
            THEN [wo |-> W, panic |-> TRUE]
            ELSE Deliver(Tail(objs), mask,
                         IF Len(W[o].ev) < eventChannelSize
                         THEN [W EXCEPT ![o].ev = Append(@, mask)]
                         ELSE W)

\* processEvents, one turn of its loop: one event is read from the inotify
\* descriptor and, unless it is IN_IGNORED, dispatched under the read lock.
Dispatch ==
    /\ Alive
    /\ Len(inotifyQ) > 0
    /\ inotifyQ' = Tail(inotifyQ)
    /\ LET e == Head(inotifyQ)
           d == Deliver(watchObjMap[e[1]], e[2], wo)
       IN IF e[2] = IN_IGNORED
          THEN UNCHANGED <<wo, panicked>>
          ELSE /\ wo' = d.wo
               /\ panicked' = IF d.panic THEN "send on closed eventChannel" ELSE panicked
    /\ UNCHANGED <<jobVars, lastOp, sideVars, callVars, kwatch, nextWd, watchObjMap, nWatch, rmCalls>>

\* The caller of StreamJob ranges over the output channel.
Consume(w) ==
    /\ Alive
    /\ Len(wo[w].out) > 0
    /\ wo' = [wo EXCEPT ![w].recv = @ \o Head(wo[w].out), ![w].out = Tail(@)]
    /\ UNCHANGED <<jobVars, lastOp, sideVars, callVars, panicked, inotifyQ, kwatch, nextWd, watchObjMap,
                   nWatch, rmCalls>>

\* ------------------------------------------------------------------ specification
NoOp == [op |-> "none", id |-> 0, err |-> "none", status |-> "none"]

\* Common names of client certificates; "" is a certificate without one.
Clients == {"alice", "bob", ""}

NoReq == [op |-> "none", client |-> "", id |-> 0, err |-> "none", reached |-> FALSE]

\* newAuthHandler: an empty map; no request answered; no Cgroup in direct use.
SideInit ==
    /\ jobClientMap = [j \in JobIds |-> "none"]
    /\ starter = [j \in JobIds |-> "none"]
    /\ lastReq = NoReq
    /\ testCgroup = NoCgroup
    /\ testLog = <<>>

\* No direct call of start or stop has been made.
NoCalls == [pending |-> 0, won |-> 0, lost |-> 0]

CallInit ==
    /\ startCalls = [j \in JobIds |-> NoCalls]
    /\ stopErr = [j \in JobIds |-> "none"]

Init ==
    /\ jobDB = {}
    /\ status = [j \in JobIds |-> JobInit]
    /\ pid = [j \in JobIds |-> 0]
    /\ exitCode = [j \in JobIds |-> 0]
    /\ logFile = [j \in JobIds |-> "nil"]
    /\ cancelFunc = [j \in JobIds |-> "nil"]
    /\ ctxDone = [j \in JobIds |-> FALSE]
    /\ cgroup = [j \in JobIds |-> NoCgroup]
    /\ pc = [j \in JobIds |-> "none"]
    /\ mon = [j \in JobIds |-> "none"]
    /\ stopPc = [j \in JobIds |-> "none"]
    /\ stopArgs = [j \in JobIds |-> <<JobInit, JobInit>>]
    /\ child = [j \in JobIds |-> "none"]
    /\ childCode = [j \in JobIds |-> 0]
    /\ fileLen = [j \in JobIds |-> 0]
    /\ lastOp = NoOp
    /\ SideInit
    /\ CallInit
    /\ panicked = "none"
    /\ inotifyQ = <<>>
    /\ kwatch = [j \in JobIds |-> 0]
    /\ nextWd = 1
    /\ watchObjMap = [d \in Wds |-> <<>>]
    /\ nWatch = 0
    /\ wo = [w \in WatchIds |-> NoWatch]
    /\ rmCalls = [d \in Wds |-> 0]

Results == {"none", "NotFound", "AlreadyExists", "panic"}

\* A call of the JobManager API returns (or panics) and its caller notes the
\* call, the error and the status it reads from the info view returned.
Noted(op, id, err) ==
    lastOp' = [op |-> op, id |-> id, err |-> err,
               status |-> IF err = "none" THEN status[id] ELSE "none"]

\* StartJob returns at once only on a duplicate id.
NotedStart(id, err) ==
    IF err = "none" THEN UNCHANGED lastOp ELSE Noted("StartJob", id, err)

\* The steps of a job's goroutines: start, monitorCommand and stop.
JobStep(j) ==
    \/ StartCAS(j)
    \/ InitCgroup(j)
    \/ OpenLogFile(j)
    \/ Spawn(j)
    \/ StorePid(j)
    \/ StoreRunning(j)
    \/ StopCAS(j)
    \/ StopClose(j)
    \/ StopDelete(j)
    \/ MonitorWait(j)

\* The steps of a watch object's reader goroutine.
ReaderStep(w) ==
    \/ ReaderOpen(w)
    \/ ReaderRecv(w)
    \/ ReaderRead(w)
    \/ ReaderCheck(w)
    \/ ReaderCleanup(w)

\* The whole program under any callers, within the bounds.
Next ==
    \/ \E id \in JobIds, g \in BOOLEAN, err \in Results :
          StartJob(id, g, err) /\ NotedStart(id, err) /\ UNCHANGED <<sideVars, callVars>>
    \/ \E id \in JobIds, err \in Results : StopJob(id, err) /\ Noted("StopJob", id, err) /\ UNCHANGED <<sideVars, callVars>>
    \/ \E id \in JobIds, err \in Results : QueryJob(id, err) /\ Noted("QueryJob", id, err) /\ UNCHANGED <<sideVars, callVars>>
    \/ \E id \in JobIds, err \in Results :
          nWatch < MaxWatch /\ StreamJob(id, err) /\ Noted("StreamJob", id, err) /\ UNCHANGED <<sideVars, callVars>>
    \/ \E j \in JobIds : JobStep(j)
    \/ \E j \in JobIds : fileLen[j] < MaxBytes /\ ChildWrite(j)
    \/ \E j \in JobIds, c \in ExitCodes : ChildExit(j, c)
    \/ \E j \in JobIds : ChildKill(j)
    \/ \E j \in JobIds : FinalizeCgroupFile(j)
    \/ \E w \in WatchIds : ReaderStep(w)
    \/ \E w \in WatchIds : Consume(w)
    \/ Dispatch

Spec == Init /\ [][Next]_vars

\* ------------------------------------------------------------------ JobSpec
\* The job lifecycle and the JobManager API on NumJobs jobs, every call noted.
\* Subscriptions that succeed are left to WatchSpec and LateSpec.
JobNext ==
    \/ \E id \in JobIds, g \in BOOLEAN, err \in Results :
          StartJob(id, g, err) /\ NotedStart(id, err) /\ UNCHANGED <<sideVars, callVars>>
    \/ \E id \in JobIds, err \in Results : StopJob(id, err) /\ Noted("StopJob", id, err) /\ UNCHANGED <<sideVars, callVars>>
    \/ \E id \in JobIds, err \in Results : QueryJob(id, err) /\ Noted("QueryJob", id, err) /\ UNCHANGED <<sideVars, callVars>>
    \/ \E id \in JobIds, err \in Results \ {"none"} :
          StreamJob(id, err) /\ Noted("StreamJob", id, err) /\ UNCHANGED <<sideVars, callVars>>
    \/ \E j \in JobIds : JobStep(j)
    \/ \E j \in JobIds : fileLen[j] < JobBytes /\ ChildWrite(j)
    \/ \E j \in JobIds, c \in ExitCodes : ChildExit(j, c)
    \/ \E j \in JobIds : ChildKill(j)
    \/ \E j \in JobIds : FinalizeCgroupFile(j)

JobSpec == Init /\ [][JobNext]_vars

\* ------------------------------------------------------------------ WatchSpec
\* One job without cgroup (as the tests run it), whose child ends by itself,
\* and up to MaxLive subscribers attaching at any moment after StartJob
\* returned.
WatchNext ==
    \/ jobDB = {} /\ StartJob(1, FALSE, "none") /\ UNCHANGED <<lastOp, sideVars, callVars>>
    \/ nWatch < MaxLive /\ StreamJob(1, "none") /\ UNCHANGED <<lastOp, sideVars, callVars>>
    \/ JobStep(1)
    \/ fileLen[1] < MaxBytes /\ ChildWrite(1)
    \/ ChildExit(1, 0)
    \/ \E w \in WatchIds : ReaderStep(w)
    \/ \E w \in WatchIds : Consume(w)
    \/ Dispatch

WatchSpec == Init /\ [][WatchNext]_vars

\* ------------------------------------------------------------------ LateSpec
\* Subscribers of a job that has ended: job 1 ran without cgroup, its child
\* wrote the log file and exited, the monitor stopped the job, nobody has
\* subscribed yet.
LateState ==
    /\ jobDB = {1}
    /\ status = [j \in JobIds |-> IF j = 1 THEN JobStopped ELSE JobInit]
    /\ pid = [j \in JobIds |-> IF j = 1 THEN ChildPid(1) ELSE 0]
    /\ exitCode = [j \in JobIds |-> 0]
    /\ logFile = [j \in JobIds |-> IF j = 1 THEN "closed" ELSE "nil"]
    /\ cancelFunc = [j \in JobIds |-> IF j = 1 THEN "set" ELSE "nil"]
    /\ ctxDone = [j \in JobIds |-> FALSE]
    /\ cgroup = [j \in JobIds |-> NoCgroup]
    /\ pc = [j \in JobIds |-> IF j = 1 THEN "done" ELSE "none"]
    /\ mon = [j \in JobIds |-> IF j = 1 THEN "done" ELSE "none"]
    /\ stopPc = [j \in JobIds |-> "none"]
    /\ stopArgs = [j \in JobIds |-> IF j = 1 THEN <<JobRunning, JobStopped>>
                                             ELSE <<JobInit, JobInit>>]
    /\ child = [j \in JobIds |-> IF j = 1 THEN "exited" ELSE "none"]
    /\ childCode = [j \in JobIds |-> 0]
    /\ fileLen \in {f \in [JobIds -> 0..MaxBytes] : \A j \in JobIds \ {1} : f[j] = 0}
    /\ lastOp = NoOp
    /\ SideInit
    /\ CallInit
    /\ panicked = "none"
    /\ inotifyQ = <<>>
    /\ kwatch = [j \in JobIds |-> 0]
    /\ nextWd = 1
    /\ watchObjMap = [d \in Wds |-> <<>>]
    /\ nWatch = 0
    /\ wo = [w \in WatchIds |-> NoWatch]
    /\ rmCalls = [d \in Wds |-> 0]

LateNext ==
    \/ nWatch < MaxWatch /\ StreamJob(1, "none") /\ UNCHANGED <<lastOp, sideVars, callVars>>
    \/ \E w \in WatchIds : ReaderStep(w)
    \/ \E w \in WatchIds : Consume(w)
    \/ Dispatch

LateSpec == LateState /\ [][LateNext]_vars

\* The Go scheduler runs every goroutine that can take a step: the dispatcher,
\* the readers and the consumers of the output channels.
LateFairness ==
    /\ WF_vars(Dispatch)
    /\ \A w \in WatchIds : WF_vars(ReaderStep(w)) /\ WF_vars(Consume(w))

FairLateSpec == LateSpec /\ LateFairness


\* ------------------------------------------------------------------ SoloSpec
\* One job as in WatchSpec, a longer log and a single subscriber.
SoloNext ==
    \/ jobDB = {} /\ StartJob(1, FALSE, "none") /\ UNCHANGED <<lastOp, sideVars, callVars>>
    \/ nWatch < 1 /\ StreamJob(1, "none") /\ UNCHANGED <<lastOp, sideVars, callVars>>
    \/ JobStep(1)
    \/ fileLen[1] < SoloBytes /\ ChildWrite(1)
    \/ ChildExit(1, 0)
    \/ ReaderStep(1)
    \/ Consume(1)
    \/ Dispatch

SoloSpec == Init /\ [][SoloNext]_vars

\* ------------------------------------------------------------------ FairJobSpec
\* The goroutines of a job run when they can, and the OS delivers the kill of
\* a cancelled context.
JobFairness == \A j \in JobIds : WF_vars(JobStep(j)) /\ WF_vars(ChildKill(j))

FairJobSpec == JobSpec /\ JobFairness

\* ------------------------------------------------------------------ the gRPC server
\* authHandler.startJobAllowed: a certificate with a common name.
startJobAllowed(c) == c # ""

\* Mutant of checkOwnership: any client passes once the job has an owner.
checkOwnership_AnyOwner(c, id) == jobClientMap[id] # "none"

\* authHandler.checkOwnership: the job has an owner and it is the caller.
checkOwnership(c, id) == jobClientMap[id] # "none" /\ jobClientMap[id] = c

Answer(op, c, id, err, reached) ==
    lastReq' = [op |-> op, client |-> c, id |-> id, err |-> err, reached |-> reached]

\* JobWorkerServer.StartJob up to the return of JobManager.StartJob: a caller
\* without a name is refused; a duplicate id is answered with the manager's
\* error; otherwise the job is stored and start runs, the owner kept.
SrvStartJob(c, id, err) ==
    /\ Alive
    /\ IF ~startJobAllowed(c)
       THEN /\ err = "PermissionDenied"
            /\ id = 1
            /\ Answer("StartJob", c, 0, err, FALSE)
            /\ UNCHANGED <<jobVars, panicked, watchVars, jobClientMap, starter>>
       ELSE /\ StartJob(id, FALSE, err)
            /\ IF err = "none"
               THEN /\ starter' = [starter EXCEPT ![id] = c]
                    /\ UNCHANGED lastReq
               ELSE /\ Answer("StartJob", c, id, err, TRUE)
                    /\ UNCHANGED starter
            /\ UNCHANGED jobClientMap
    /\ UNCHANGED <<lastOp, testCgroup, testLog, callVars>>

\* JobWorkerServer.StartJob after JobManager.StartJob returned: on an error
\* it is passed on, otherwise the owner is registered and the job answered.
SrvStartReturns(j) ==
    /\ Alive
    /\ starter[j] # "none"
    /\ pc[j] \in {"done", "failed", "invalid"}
    /\ jobClientMap' = IF pc[j] = "done"
                       THEN [jobClientMap EXCEPT ![j] = starter[j]]
                       ELSE jobClientMap
    /\ Answer("StartJob", starter[j], j, IF pc[j] = "done" THEN "none" ELSE "failed", TRUE)
    /\ starter' = [starter EXCEPT ![j] = "none"]
    /\ UNCHANGED <<jobVars, lastOp, panicked, watchVars, testCgroup, testLog, callVars>>

\* JobWorkerServer.QueryJob.
SrvQueryJob(c, id, err) ==
    /\ Alive
    /\ IF checkOwnership(c, id)
       THEN /\ QueryJob(id, err)
            /\ Answer("QueryJob", c, id, err, TRUE)
       ELSE /\ err = "PermissionDenied"
            /\ Answer("QueryJob", c, id, err, FALSE)
            /\ UNCHANGED <<jobVars, panicked, watchVars>>
    /\ UNCHANGED <<lastOp, jobClientMap, starter, testCgroup, testLog, callVars>>

\* JobWorkerServer.StopJob.
SrvStopJob(c, id, err) ==
    /\ Alive
    /\ IF checkOwnership(c, id)
       THEN /\ StopJob(id, err)
            /\ Answer("StopJob", c, id, err, TRUE)
       ELSE /\ err = "PermissionDenied"
            /\ Answer("StopJob", c, id, err, FALSE)
            /\ UNCHANGED <<jobVars, panicked, watchVars>>
    /\ UNCHANGED <<lastOp, jobClientMap, starter, testCgroup, testLog, callVars>>

\* JobWorkerServer.StreamJob up to the loop over the output channel, whose
\* turns are the steps Consume of the watch object.
SrvStreamJob(c, id, err) ==
    /\ Alive
    /\ IF checkOwnership(c, id)
       THEN /\ StreamJob(id, err)
            /\ Answer("StreamJob", c, id, err, TRUE)
       ELSE /\ err = "PermissionDenied"
            /\ Answer("StreamJob", c, id, err, FALSE)
            /\ UNCHANGED <<jobVars, panicked, watchVars>>
    /\ UNCHANGED <<lastOp, jobClientMap, starter, testCgroup, testLog, callVars>>

SrvResults == Results \cup {"PermissionDenied"}

\* ------------------------------------------------------------------ ServerSpec
\* The server in front of the manager, run without cgroups as its tests run
\* it: one job is started, and any client sends any request for any id at any
\* moment.
ServerNext ==
    \/ \E c \in Clients, err \in SrvResults : jobDB = {} /\ SrvStartJob(c, 1, err)
    \/ SrvStartReturns(1)
    \/ \E c \in Clients, id \in JobIds, err \in SrvResults : SrvQueryJob(c, id, err)
    \/ \E c \in Clients, id \in JobIds, err \in SrvResults : SrvStopJob(c, id, err)
    \/ \E c \in Clients, id \in JobIds, err \in SrvResults :
          nWatch < 1 /\ SrvStreamJob(c, id, err)
    \/ JobStep(1)
    \/ fileLen[1] < JobBytes /\ ChildWrite(1)
    \/ ChildExit(1, 0)
    \/ ChildKill(1)
    \/ ReaderStep(1)
    \/ Consume(1)
    \/ Dispatch

ServerSpec == Init /\ [][ServerNext]_vars

\* ------------------------------------------------------------------ CgroupSpec
\* A Cgroup used directly, as TestCgroups uses one: NewCgroup, then Create and
\* Delete in any order, with the garbage collector running in between.
LimitValues == {-1, 0, 1, 10}

Limits == [cpu : LimitValues, mem : LimitValues, io : LimitValues]

\* NewCgroup, and the limits and the root device of the test.
TestNewCgroup(limits, major) ==
    /\ ~testCgroup.present
    /\ testCgroup' = NewCgroup
    /\ testLog' = <<[op |-> "New", limits |-> limits, major |-> major]>>
    /\ UNCHANGED <<jobVars, lastOp, panicked, watchVars, jobClientMap, starter, lastReq, callVars>>

\* Create(limits) returns; fresh: the directory did not exist before the call.
TestCreate(r) ==
    /\ testCgroup.present
    /\ Len(testLog) <= MaxCalls
    /\ StepRuns(testLog[1].limits, r)
    /\ testCgroup' = CgroupCreate(testCgroup, testLog[1].limits, testLog[1].major, r)
    /\ testLog' = Append(testLog, [op |-> "Create", err |-> r # "ok",
                                   fresh |-> ~testCgroup.dir, after |-> testCgroup'])
    /\ UNCHANGED <<jobVars, lastOp, panicked, watchVars, jobClientMap, starter, lastReq, callVars>>

\* Delete() returns.
TestDelete(reused) ==
    /\ testCgroup.present
    /\ Len(testLog) <= MaxCalls
    /\ testCgroup' = CgroupDelete(testCgroup, reused).c
    /\ testLog' = Append(testLog, [op |-> "Delete",
                                   err |-> CgroupDelete(testCgroup, reused).err,
                                   mid |-> CgroupDelete(testCgroup, reused).mid,
                                   fresh |-> FALSE, after |-> testCgroup'])
    /\ UNCHANGED <<jobVars, lastOp, panicked, watchVars, jobClientMap, starter, lastReq, callVars>>

TestFinalize ==
    /\ testCgroup.fd = "open"
    /\ testCgroup' = Finalized(testCgroup)
    /\ UNCHANGED <<jobVars, lastOp, panicked, watchVars, jobClientMap, starter, lastReq,
                   testLog, callVars>>

CgroupNext ==
    \/ \E limits \in Limits, major \in Majors : TestNewCgroup(limits, major)
    \/ \E r \in CreateOutcomes : TestCreate(r)
    \/ \E reused \in BOOLEAN : TestDelete(reused)
    \/ TestFinalize

CgroupSpec == Init /\ [][CgroupNext]_vars

\* ------------------------------------------------------------------ UnitSpec
\* A job used directly, as a test inside the package does: NewJob, then n
\* goroutines that call start on it, and calls of stop once start has returned.

\* NewJob, and n callers of start launched.
NewJobStarts(j, useCgroup, n) ==
    /\ Alive
    /\ status[j] = JobInit /\ pc[j] = "none" /\ startCalls[j] = NoCalls
    /\ cgroup' = [cgroup EXCEPT ![j] = IF useCgroup THEN NewCgroup ELSE NoCgroup]
    /\ startCalls' = [startCalls EXCEPT ![j].pending = n]
    /\ UNCHANGED <<jobDB, status, pid, exitCode, logFile, cancelFunc, ctxDone, pc, mon,
                   stopPc, stopArgs, child, childCode, fileLen, lastOp, sideVars, stopErr,
                   panicked, watchVars>>

\* Mutant of DirectStartCAS: the status is stored without comparing it.
DirectStartCAS_Store(j) ==
    /\ Alive
    /\ startCalls[j].pending > 0
    /\ status' = [status EXCEPT ![j] = JobScheduled]
    /\ pc' = [pc EXCEPT ![j] = "initCgroup"]
    /\ startCalls' = [startCalls EXCEPT ![j].pending = @ - 1, ![j].won = @ + 1]
    /\ UNCHANGED <<jobDB, pid, exitCode, logFile, cancelFunc, ctxDone, cgroup, mon,
                   stopPc, stopArgs, child, childCode, fileLen, lastOp, sideVars, stopErr,
                   panicked, watchVars>>

\* start, lines 113-115, by one of the callers: the one whose compare-and-swap
\* succeeds goes on with start (pc follows it), the others return the error.
DirectStartCAS(j) ==
    /\ Alive
    /\ startCalls[j].pending > 0
    /\ IF status[j] = JobInit
       THEN /\ status' = [status EXCEPT ![j] = JobScheduled]
            /\ pc' = [pc EXCEPT ![j] = "initCgroup"]
            /\ startCalls' = [startCalls EXCEPT ![j].pending = @ - 1, ![j].won = @ + 1]
       ELSE /\ startCalls' = [startCalls EXCEPT ![j].pending = @ - 1, ![j].lost = @ + 1]
            /\ UNCHANGED <<status, pc>>
    /\ UNCHANGED <<jobDB, pid, exitCode, logFile, cancelFunc, ctxDone, cgroup, mon,
                   stopPc, stopArgs, child, childCode, fileLen, lastOp, sideVars, stopErr,
                   panicked, watchVars>>

\* The status a direct call of stop expects: one the job has left by the time
\* start has returned.
DirectOld == {JobInit, JobScheduled}

\* A direct call of stop(old, new) while no goroutine of the job can be in
\* stop: start has returned, and the monitor has ended, was never launched, or
\* waits for a child that is alive.
DirectStop(j, old, new) ==
    /\ Alive
    /\ pc[j] \in {"done", "failed"}
    /\ stopPc[j] = "none"
    /\ mon[j] \in {"none", "done"} \/ child[j] = "alive"
    /\ CallStop(j, old, new)
    /\ UNCHANGED <<jobDB, status, pid, exitCode, logFile, cancelFunc, ctxDone, cgroup, pc,
                   mon, child, childCode, fileLen, lastOp, sideVars, callVars,
                   panicked, watchVars>>

\* The child ends only between two calls of stop.
UnitNext ==
    \/ \E g \in BOOLEAN, n \in 1..MaxStarts : NewJobStarts(1, g, n)
    \/ DirectStartCAS(1)
    \/ InitCgroup(1) \/ OpenLogFile(1) \/ Spawn(1) \/ StorePid(1) \/ StoreRunning(1)
    \/ StopCAS(1) \/ StopClose(1) \/ StopDelete(1)
    \/ MonitorWait(1)
    \/ \E c \in ExitCodes : stopPc[1] = "none" /\ ChildExit(1, c)
    \/ FinalizeCgroupFile(1)
    \/ \E old \in DirectOld, new \in {JobFailedToStart, JobStopped} : DirectStop(1, old, new)

UnitSpec == Init /\ [][UnitNext]_vars

\* ------------------------------------------------------------------ FaultSpec
\* startWatching, lines 57-60: os.Open of the log file fails and the reader
\* goroutine returns the error, which AddWatch's go statement discards.
ReaderOpenFails(w) ==
    /\ Alive
    /\ wo[w].rpc = "open"
    /\ wo' = [wo EXCEPT ![w].rpc = "failed"]
    /\ UNCHANGED <<jobVars, lastOp, sideVars, callVars, panicked, inotifyQ, kwatch, nextWd,
                   watchObjMap, nWatch, rmCalls>>

\* startWatching, lines 69-71, and readToEOF, lines 95-100: a Read fails with
\* an error other than io.EOF and the reader goroutine returns it.
ReaderReadFails(w) ==
    /\ Alive
    /\ wo[w].rpc = "read"
    /\ wo' = [wo EXCEPT ![w].rpc = "failed"]
    /\ UNCHANGED <<jobVars, lastOp, sideVars, callVars, panicked, inotifyQ, kwatch, nextWd,
                   watchObjMap, nWatch, rmCalls>>

\* Subscribers of a job that has ended, as in LateSpec, whose opens and reads
\* of the log file can fail.
FaultNext ==
    \/ nWatch < MaxLive /\ StreamJob(1, "none") /\ UNCHANGED <<lastOp, sideVars, callVars>>
    \/ \E w \in WatchIds : ReaderStep(w)
    \/ \E w \in WatchIds : ReaderOpenFails(w)
    \/ \E w \in WatchIds : ReaderReadFails(w)
    \/ \E w \in WatchIds : Consume(w)
    \/ Dispatch

FaultSpec == LateState /\ [][FaultNext]_vars

\* ------------------------------------------------------------------ properties
\* The whole contents of log file f.
Whole(f) == Bytes(0, fileLen[f])

Attached(w) == wo[w].rpc # "none"

\* The output channel of w is closed and its consumer has received all it held.
Drained(w) == wo[w].outClosed /\ wo[w].out = <<>>

RECURSIVE Concat(_)
Concat(ss) == IF ss = <<>> THEN <<>> ELSE Head(ss) \o Concat(Tail(ss))

\* Every byte sent on the output channel of w so far, in order.
Delivered(w) == wo[w].recv \o Concat(wo[w].out)

IsPrefix(a, b) == Len(a) <= Len(b) /\ a = SubSeq(b, 1, Len(a))

LegalEdges ==
    {<<JobInit, JobScheduled>>, <<JobScheduled, JobFailedToStart>>,
     <<JobScheduled, JobRunning>>, <<JobRunning, JobStopped>>}

\* C1: every change of a job's status is one of Init -> Scheduled, Scheduled ->
\* FailedToStart, Scheduled -> Running, Running -> Stopped; so no status is
\* entered twice, FailedToStart and Stopped are never left, nothing goes back.
C1_StatusPath ==
    [][\A j \in JobIds :
          status'[j] # status[j] => <<status[j], status'[j]>> \in LegalEdges]_vars

\* Both terminal statuses are reached: one job Stopped, another FailedToStart.
C1_Witness ==
    \E j, k \in JobIds : status[j] = JobStopped /\ status[k] = JobFailedToStart

\* C2 (as claimed): a subscriber that attached while the job was active and
\* lost no buffer to a full channel has received the whole log file once its
\* channel is closed and drained.
C2_FullLogAtClose ==
    \A w \in WatchIds :
        (Attached(w) /\ wo[w].born \in {JobScheduled, JobRunning}
         /\ Drained(w) /\ ~wo[w].dropped)
        => wo[w].recv = Whole(wo[w].file)

\* C3 (as claimed): a subscriber that attaches after the job has stopped, and
\* loses no buffer to a full channel, eventually has its channel closed with
\* the whole log file received, whatever other subscribers did before.
C3_LateSubscriberGetsAll ==
    \A w \in WatchIds :
        (Attached(w) /\ wo[w].born = JobStopped)
        ~> (wo[w].dropped \/ (Drained(w) /\ wo[w].recv = Whole(1)))

\* C4 (as claimed): the output channel of every subscriber is eventually closed
\* once the job is inactive and its log file closed.
C4_ChannelEventuallyClosed ==
    \A w \in WatchIds :
        (Attached(w) /\ ~isActive(1) /\ logFile[1] = "closed") ~> wo[w].outClosed

\* C5 (as claimed): at every moment the bytes delivered to a subscriber are a
\* prefix of the log file.
C5_DeliveredIsPrefix ==
    \A w \in WatchIds : Attached(w) => IsPrefix(Delivered(w), Whole(wo[w].file))

\* C5 (amended): as long as no buffer of the subscriber was dropped on a full
\* output channel, the bytes delivered to it are a prefix of the log file.
C5_DeliveredIsPrefixUnlessDropped ==
    \A w \in WatchIds :
        (Attached(w) /\ ~wo[w].dropped) => IsPrefix(Delivered(w), Whole(wo[w].file))

\* A subscriber of a running job has been delivered two bytes in two buffers,
\* none dropped.
C5_Witness ==
    \E w \in WatchIds :
        /\ Attached(w) /\ ~wo[w].dropped /\ isActive(wo[w].file)
        /\ Len(Delivered(w)) >= 2 /\ Len(wo[w].recv) >= 1

\* C6 (as claimed): while one subscriber never reads (its channel is full and
\* buffers of it were dropped), any other subscriber of the same file that
\* lost no buffer has received the whole log file once its channel is closed
\* and drained.
C6_OthersGetAllBytes ==
    \A s, t \in WatchIds :
        (/\ s # t /\ Attached(s) /\ Attached(t) /\ wo[s].file = wo[t].file
         /\ wo[s].recv = <<>> /\ wo[s].dropped /\ Len(wo[s].out) = outputChannelSize
         /\ Drained(t) /\ ~wo[t].dropped)
        => wo[t].recv = Whole(wo[t].file)

\* C7 (as claimed): once StopJob was called on a started, running job, the job
\* eventually is Stopped with the child's exit code stored.
C7_StopReachesStopped ==
    \A j \in JobIds :
        (pc[j] = "done" /\ ctxDone[j] /\ status[j] = JobRunning)
        ~> (status[j] = JobStopped /\ exitCode[j] = childCode[j])

\* A step in which a call of op returns for job id and is noted.
Returns(op, id) == lastOp' # lastOp /\ lastOp'.op = op /\ lastOp'.id = id

\* C8: StopJob on a job that is Stopped returns the info view without error and
\* changes nothing but the cancelled flag of the job's context; once that is
\* set, a further StopJob changes nothing at all.
C8_StopStoppedNoOp ==
    [][\A id \in JobIds :
          (Returns("StopJob", id) /\ id \in jobDB /\ status[id] = JobStopped)
          => /\ lastOp'.err = "none"
             /\ lastOp'.status = JobStopped
             /\ UNCHANGED <<jobDB, status, pid, exitCode, logFile, cancelFunc, cgroup,
                            pc, mon, stopPc, stopArgs, child, childCode, fileLen,
                            panicked, watchVars>>
             /\ (ctxDone[id] => UNCHANGED ctxDone)]_vars

\* StopJob has returned the info view of a job that was Stopped before the
\* call, after an earlier StopJob had cancelled its context.
C8_Witness ==
    \E id \in JobIds :
        /\ lastOp = [op |-> "StopJob", id |-> id, err |-> "none", status |-> JobStopped]
        /\ exitCode[id] = -1

\* C9: when start fails, StartJob returns with the job FailedToStart and still
\* in the registry, and a QueryJob for it returns the info view with status
\* FailedToStart.
C9_FailedStartQueryable ==
    [][/\ \A j \in JobIds :
             pc'[j] = "failed" => j \in jobDB' /\ status'[j] = JobFailedToStart
       /\ \A id \in JobIds :
             (Returns("QueryJob", id) /\ pc[id] = "failed")
             => lastOp'.err = "none" /\ lastOp'.status = JobFailedToStart]_vars

\* QueryJob has returned FailedToStart for a job whose start failed.
C9_Witness ==
    \E id \in JobIds :
        /\ pc[id] = "failed"
        /\ lastOp = [op |-> "QueryJob", id |-> id, err |-> "none",
                     status |-> JobFailedToStart]

\* C10: StopJob, QueryJob and StreamJob for an id that is not registered
\* return NotFound and change nothing.
C10_UnknownIdNotFound ==
    [][\A id \in JobIds :
          (id \notin jobDB
           /\ (Returns("StopJob", id) \/ Returns("QueryJob", id) \/ Returns("StreamJob", id)))
          => /\ lastOp'.err = "NotFound"
             /\ UNCHANGED <<jobVars, panicked, watchVars>>]_vars

\* StreamJob has returned NotFound for an unregistered id while another job is
\* registered.
C10_Witness ==
    /\ lastOp.op = "StreamJob" /\ lastOp.err = "NotFound"
    /\ lastOp.id \notin jobDB /\ jobDB # {}

\* C11: the registry only grows, and QueryJob for a stored id returns the info
\* view of that id without error, whatever the status of the job.
C11_RegistryOnlyGrows ==
    [][/\ jobDB \subseteq jobDB'
       /\ \A id \in JobIds :
             (Returns("QueryJob", id) /\ id \in jobDB)
             => lastOp'.err = "none" /\ lastOp'.id = id /\ lastOp'.status = status[id]]_vars

\* QueryJob has returned the info view of a job that is Stopped while another
\* job, FailedToStart, is still registered.
C11_Witness ==
    \E id, k \in JobIds :
        /\ lastOp = [op |-> "QueryJob", id |-> id, err |-> "none", status |-> JobStopped]
        /\ k \in jobDB /\ status[k] = JobFailedToStart

\* C12: StartJob with an id already stored returns AlreadyExists and changes
\* nothing; the stored job is not started again.
C12_DuplicateIdRejected ==
    [][\A id \in JobIds :
          id \in jobDB
          => /\ Returns("StartJob", id)
                => /\ lastOp'.err = "AlreadyExists"
                   /\ UNCHANGED <<jobVars, panicked, watchVars>>
             /\ pc'[id] = "cas" => pc[id] = "cas"]_vars

\* StartJob has returned AlreadyExists for the id of a job that is Running.
C12_Witness ==
    \E id \in JobIds :
        /\ lastOp = [op |-> "StartJob", id |-> id, err |-> "AlreadyExists",
                     status |-> "none"]
        /\ status[id] = JobRunning /\ pid[id] > 0

\* Job.stop has returned for a job in a terminal status.
StopReturned(j) ==
    \/ status[j] = JobFailedToStart /\ pc[j] = "failed"
    \/ status[j] = JobStopped /\ mon[j] = "done"

\* C13 (as claimed, read after Job.stop has returned): a job in a terminal
\* status has no cgroup directory and its log file is not open.
C13_TerminalIsCleanedUp ==
    \A j \in JobIds : StopReturned(j) => ~cgroup[j].dir /\ logFile[j] # "open"

\* C14: a job that is Running or Stopped has a pid greater than zero.
C14_PidBeforeRunning ==
    \A j \in JobIds : status[j] \in {JobRunning, JobStopped} => pid[j] > 0

\* QueryJob has returned the info view of a Running job, whose pid is set.
C14_Witness ==
    \E id \in JobIds :
        /\ lastOp = [op |-> "QueryJob", id |-> id, err |-> "none", status |-> JobRunning]
        /\ status[id] = JobRunning /\ pid[id] > 0

\* C15: QueryJob, StopJob and StreamJob sent by a client that is not the
\* registered owner of the job are answered PermissionDenied and do not reach
\* the job manager.
C15_OnlyOwnerReachesManager ==
    [][\A c \in Clients, id \in JobIds :
          (/\ lastReq' # lastReq
           /\ lastReq'.op \in {"QueryJob", "StopJob", "StreamJob"}
           /\ lastReq'.client = c /\ lastReq'.id = id
           /\ jobClientMap[id] # c)
          => /\ lastReq'.err = "PermissionDenied"
             /\ ~lastReq'.reached
             /\ UNCHANGED <<jobVars, lastOp, panicked, watchVars, jobClientMap>>]_vars

\* A named client that is not the owner was refused StopJob for a job that
\* has an owner and is still Running.
C15_Witness ==
    /\ lastReq.op = "StopJob" /\ lastReq.err = "PermissionDenied"
    /\ lastReq.client # ""
    /\ lastReq.id \in jobDB
    /\ jobClientMap[lastReq.id] \notin {"none", lastReq.client}
    /\ status[lastReq.id] = JobRunning /\ ~ctxDone[lastReq.id]

\* The n-th call from the end made on the Cgroup in direct use; the first
\* entry of the log is NewCgroup.
Call(n) == testLog[Len(testLog) + 1 - n]

Calls == Len(testLog) - 1

\* C16 (as claimed): after Create followed by Delete the directory of the
\* cgroup does not exist.
C16_CreateDeleteRemovesDir ==
    (Calls >= 2 /\ Call(2).op = "Create" /\ Call(1).op = "Delete")
    => ~testCgroup.dir

\* C17 (as claimed): a Delete that follows a successful Create and a successful
\* Delete returns no error and leaves the cgroup as the first Delete left it.
C17_DeleteIdempotent ==
    (/\ Calls >= 3
     /\ Call(3).op = "Create" /\ ~Call(3).err
     /\ Call(2).op = "Delete" /\ ~Call(2).err
     /\ Call(1).op = "Delete")
    => ~Call(1).err /\ Call(1).after = Call(2).after

\* C18 (as claimed): from the return of a successful Create until stop calls
\* Delete, the descriptor of a job's cgroup is open.
C18_DescriptorOpenUntilDelete ==
    \A j \in JobIds :
        (/\ cgroup[j].present
         /\ pc[j] \in {"openLogFile", "spawn", "storePid", "storeStatus", "done"}
         /\ status[j] \in {JobScheduled, JobRunning})
        => cgroup[j].fd = "open"

\* What the files of the cgroup hold for the limit values of CgroupSpec.
ExpectedCpuMax(v) == IF v = 1 THEN "1 1000000" ELSE "10 1000000"

ExpectedMemMax(v) == IF v = 1 THEN "1" ELSE "10"

ExpectedIoMax(major, v) ==
    CASE major = 8 /\ v = 1 -> "8:0 rbps=1 wbps=1"
      [] major = 8 /\ v = 10 -> "8:0 rbps=10 wbps=10"
      [] major = 259 /\ v = 1 -> "259:0 rbps=1 wbps=1"
      [] major = 259 /\ v = 10 -> "259:0 rbps=10 wbps=10"

\* C19: after Create(limits) has succeeded on a cgroup whose directory did not
\* exist, cgroup.subtree_control holds "+cpu +memory +io" and each limit file
\* is written if and only if its limit is greater than zero: cpu.max holds
\* "<quota> 1000000", memory.max the decimal count, io.max "<major>:0
\* rbps=<N> wbps=<N>".
C19_CreateWritesLimits ==
    (Calls >= 1 /\ Call(1).op = "Create" /\ ~Call(1).err /\ Call(1).fresh)
    => LET l == testLog[1].limits
       IN /\ testCgroup.subtree = "+cpu +memory +io"
          /\ testCgroup.cpuMax = IF l.cpu > 0 THEN ExpectedCpuMax(l.cpu) ELSE NoFile
          /\ testCgroup.memMax = IF l.mem > 0 THEN ExpectedMemMax(l.mem) ELSE NoFile
          /\ testCgroup.ioMax = IF l.io > 0 THEN ExpectedIoMax(testLog[1].major, l.io)
                                ELSE NoFile

\* Create has succeeded with a cpu limit of 10, an io limit of 1 on device 259
\* and no memory limit.
C19_Witness ==
    /\ Calls >= 1 /\ Call(1).op = "Create" /\ ~Call(1).err /\ Call(1).fresh
    /\ testLog[1].limits = [cpu |-> 10, mem |-> 0, io |-> 1] /\ testLog[1].major = 259
    /\ testCgroup.cpuMax = "10 1000000" /\ testCgroup.memMax = NoFile
    /\ testCgroup.ioMax = "259:0 rbps=1 wbps=1"

C21_NoSendOnClosedOutputChannel == panicked # "send on closed outChannel"

\* removeWatchObject acts on watch object w in this step.
Removes(w) == ~wo[w].evClosed /\ wo'[w].evClosed

\* The list l without w.
Without(l, w) == SelectSeq(l, LAMBDA x : x # w)

\* C22 (as claimed): when a watch object is removed, the list the registry
\* stores for its descriptor becomes the former list without that object: the
\* other subscribers once each, in their order.
C22_RemovedFromRegistry ==
    [][\A w \in WatchIds :
          Removes(w) => watchObjMap'[wo[w].wd] = Without(watchObjMap[wo[w].wd], w)]_vars

\* The watch objects made for descriptor d, and those of them not removed yet.
Subscribers(d) == {w \in WatchIds : wo[w].rpc # "none" /\ wo[w].wd = d}

AttachedTo(d) == {w \in Subscribers(d) : ~wo[w].evClosed}

\* C23 (as claimed): inotify_rm_watch is invoked for a descriptor exactly once,
\* by the removal of its last remaining subscriber: never twice, never while a
\* subscriber is attached, and it has been invoked once all are removed.
C23_RmWatchOnceByLast ==
    \A d \in Wds :
        /\ rmCalls[d] <= 1
        /\ rmCalls[d] = 1 => AttachedTo(d) = {}
        /\ (Subscribers(d) # {} /\ AttachedTo(d) = {}) => rmCalls[d] = 1

\* C24: the cleanup of a watch object never runs twice, however many events
\* its reader processes while the job is inactive: whenever it runs, the output
\* channel and the event channel were both open and it closes both.
C24_CleanupOnce ==
    [][\A w \in WatchIds :
          (wo[w].rpc = "cleanup" /\ wo'[w].rpc # "cleanup")
          => /\ ~wo[w].outClosed /\ ~wo[w].evClosed
             /\ wo'[w].outClosed /\ wo'[w].evClosed]_vars

\* A reader whose cleanup has run has processed one more event and is about to
\* find the job inactive again.
C24_Witness ==
    \E w \in WatchIds :
        wo[w].once /\ wo[w].evClosed /\ wo[w].rpc = "check" /\ ~isActive(wo[w].file)

\* C25: the output channel of a subscriber is closed only while the job is
\* inactive; the reader starts its cleanup only from the check that found the
\* job inactive, and it reaches that check only when its read has found the
\* end of the file.
C25_ClosedOnlyWhenInactive ==
    /\ [](\A w \in WatchIds : wo[w].outClosed => ~isActive(wo[w].file))
    /\ [][\A w \in WatchIds :
             /\ (wo'[w].rpc = "cleanup" /\ wo[w].rpc # "cleanup")
                => wo[w].rpc = "check" /\ ~isActive(wo[w].file)
             /\ (wo'[w].rpc = "check" /\ wo[w].rpc # "check")
                => wo[w].off = fileLen[wo[w].file]]_vars

\* A subscriber that attached while the job was running has had its output
\* channel closed.
C25_Witness ==
    \E w \in WatchIds : wo[w].born = JobRunning /\ wo[w].outClosed

\* C26: of the calls of start made on one job, concurrent with each other and
\* with the steps of the winner, exactly one wins the compare-and-swap Init ->
\* Scheduled; every other call returns the error and changes nothing of the
\* job: no status, cgroup, log file, child or pid.
C26_OneStartWins ==
    /\ [](\A j \in JobIds :
             /\ startCalls[j].won <= 1
             /\ (startCalls[j] # NoCalls /\ startCalls[j].pending = 0)
                => startCalls[j].won = 1)
    /\ [][\A j \in JobIds :
             startCalls'[j].lost # startCalls[j].lost
             => /\ startCalls'[j].won = startCalls[j].won
                /\ UNCHANGED jobVars]_vars

\* A call of start has lost while the winner is still inside start and another
\* caller has not reached its compare-and-swap.
C26_Witness ==
    /\ startCalls[1].won = 1 /\ startCalls[1].lost >= 1 /\ startCalls[1].pending >= 1
    /\ pc[1] \in {"openLogFile", "spawn"}

\* C27 (as claimed): once start has returned an error the job is
\* FailedToStart, its log file is not open, its cgroup descriptor is not open
\* and its cgroup directory does not exist, and no monitor was launched.
C27_FailedStartReleasesAll ==
    \A j \in JobIds :
        pc[j] = "failed"
        => /\ status[j] = JobFailedToStart
           /\ logFile[j] # "open"
           /\ cgroup[j].present => (~cgroup[j].dir /\ cgroup[j].fd # "open")
           /\ mon[j] = "none"

\* C28 (as claimed): a stop whose close of the log file failed has still
\* deleted the cgroup when it returns that error.
C28_CleanupCompletes ==
    \A j \in JobIds :
        (stopPc[j] = "none" /\ stopErr[j] = "close" /\ cgroup[j].present)
        => ~cgroup[j].dir

\* C29: a stop whose compare-and-swap fails returns the error at once and
\* changes nothing: not the status, not the log file, not the cgroup, and no
\* close event is queued.
C29_LostStopNoEffect ==
    [][\A j \in JobIds :
          (stopPc[j] = "cas" /\ stopPc'[j] # "cas" /\ status[j] # stopArgs[j][1])
          => /\ stopPc'[j] = "none" /\ stopErr'[j] = "cas"
             /\ UNCHANGED <<status, logFile, cgroup, inotifyQ, exitCode, pid>>]_vars

\* A stop that expected Scheduled has returned its error on a running job
\* whose log file is open and whose cgroup directory exists.
C29_Witness ==
    /\ stopErr[1] = "cas" /\ stopPc[1] = "none"
    /\ status[1] = JobRunning /\ logFile[1] = "open"
    /\ cgroup[1].present /\ cgroup[1].dir

\* C30: the monitor stores the exit code of the child before the status
\* becomes Stopped: whenever a job is Stopped its exit code is the one the OS
\* reported for the child, and it does not change afterwards.
C30_ExitCodeBeforeStopped ==
    /\ [](\A j \in JobIds : status[j] = JobStopped => exitCode[j] = childCode[j])
    /\ [][\A j \in JobIds : status[j] = JobStopped => exitCode'[j] = exitCode[j]]_vars

\* A job whose child was killed is Stopped with the exit code -1.
C30_Witness ==
    \E j \in JobIds : status[j] = JobStopped /\ exitCode[j] = -1 /\ mon[j] = "done"

\* C31: the status of a job is terminal before its log file is closed. So a
\* reader that takes an IN_CLOSE_WRITE event from its event channel does so
\* when the job is no longer active; a job that is no longer active never
\* becomes active again; and the check that follows the read to the end of
\* the file then starts the cleanup, unless the cleanup has already run.
C31_CloseEventFindsInactive ==
    /\ [][\A w \in WatchIds :
             (wo[w].rpc = "wait" /\ wo'[w].rpc = "read"
              /\ Head(wo[w].ev) = IN_CLOSE_WRITE)
             => ~isActive(wo[w].file)]_vars
    /\ [][\A j \in JobIds :
             (status[j] # JobInit /\ ~isActive(j)) => ~isActive(j)']_vars
    /\ [][\A w \in WatchIds :
             (wo[w].rpc = "check" /\ wo'[w].rpc # "check" /\ ~isActive(wo[w].file))
             => (wo[w].once \/ wo'[w].rpc = "cleanup")]_vars

\* The reader of a subscriber that attached while the job was running is about
\* to take the IN_CLOSE_WRITE event of the job's close, its cleanup not yet run.
C31_Witness ==
    \E w \in WatchIds :
        /\ wo[w].born = JobRunning /\ ~wo[w].once
        /\ wo[w].rpc = "wait" /\ wo[w].ev # <<>> /\ Head(wo[w].ev) = IN_CLOSE_WRITE

\* C32 (as claimed): the IN_OPEN event of the reader's own open reaches the
\* event channel of its watch object, so every subscriber whose reader is
\* launched eventually starts a read to the end of the file.
C32_EverySubscriberReads ==
    \A w \in WatchIds : (wo[w].rpc = "open") ~> (wo[w].rpc = "read")

\* C33 (as claimed): a subscription whose reader has failed to open or to read
\* the log file is terminated: its output channel is closed, so its stream ends.
C33_FailedReaderEndsStream ==
    \A w \in WatchIds : wo[w].rpc = "failed" => wo[w].outClosed

\* C34 (as claimed): StopJob and StreamJob on a registered job never call an
\* unset cancel func and never use an unset log file, whatever the status of
\* the job: neither call panics.
C34_NoNilDereference == panicked \notin {"nil cancelFunc", "nil logFile"}

\* C35: the cleanup of stop runs at most once for a job, whatever the
\* interleaving of the failure paths of start, the monitor and StopJob: stop
\* begins its cleanup only by swapping an active status for a terminal one,
\* never closes a log file that was closed before and never deletes a cgroup
\* whose descriptor Delete has closed before.
C35_CleanupAtMostOnce ==
    /\ [][\A j \in JobIds :
             (stopPc[j] = "cas" /\ stopPc'[j] = "close")
             => (isActive(j) /\ status'[j] \in {JobFailedToStart, JobStopped})]_vars
    /\ [][\A j \in JobIds :
             (stopPc[j] = "close" /\ stopPc'[j] # "close") => logFile[j] # "closed"]_vars
    /\ [][\A j \in JobIds :
             (stopPc[j] = "delete" /\ stopPc'[j] # "delete")
             => cgroup[j].fd # "closed"]_vars

\* StopJob was called on a running job with a cgroup, the child was killed and
\* the stop of the monitor has returned after its cleanup.
C35_Witness ==
    \E j \in JobIds :
        /\ ctxDone[j] /\ status[j] = JobStopped /\ mon[j] = "done"
        /\ logFile[j] = "closed" /\ cgroup[j].present /\ cgroup[j].fd = "closed"

\* C36: Delete closes the descriptor before it removes the directory: neither
\* between the two steps of any Delete nor in any state reached is the
\* directory of the cgroup gone while its descriptor is open.
C36_CloseBeforeRemove ==
    /\ testCgroup.fd = "open" => testCgroup.dir
    /\ \A i \in 1..Len(testLog) :
          testLog[i].op = "Delete"
          => (testLog[i].mid.fd = "open" => testLog[i].mid.dir)

\* A Delete has closed the descriptor of an existing directory, then removed
\* the directory.
C36_Witness ==
    \E i \in 1..Len(testLog) :
        /\ testLog[i].op = "Delete" /\ ~testLog[i].err
        /\ testLog[i].mid.fd = "closed" /\ testLog[i].mid.dir
        /\ ~testLog[i].after.dir

====
